---- MODULE Spec2Model ----
(***************************************************************************)
(* threaded_logger: a facade logger that snapshots every record, sends a   *)
(* replay closure over an unbounded crossbeam channel and lets one         *)
(* blocking task replay the closures into the sink stored in INNER_LOGGER. *)
(***************************************************************************)
EXTENDS Naturals, Sequences, FiniteSets

(* ------------------------------ bounds -------------------------------- *)

\* log calls followed, over all producers
MaxLogs == 3
\* flush calls followed, over all producers
MaxFlush == 1
\* failed recv() rounds a consumer of a disconnected channel is followed for
MaxRecvErrs == 2

\* threads calling try_init, each with its own sink and max_level argument
Installers == {"i1", "i2"}
\* threads using the process-wide logger
Producers == {"p1", "p2"}

SinkOf(i) == IF i = "i1" THEN "S1" ELSE "S2"
LevelOf(i) == IF i = "i1" THEN "Info" ELSE "Debug"

None == "None"

VARIABLES
    INNER_LOGGER,   \* the OnceCell: None or the sink it holds
    LOGGER,         \* the log crate's process-wide logger
    MAX_LEVEL,      \* the log crate's global severity filter
    ipc,            \* try_init call of each installer: its position
    flogger,        \* try_init local: threaded_logger.logger
    r,              \* try_init local: r
    ires,           \* what the try_init call returned
    senderAlive,    \* channel of each try_init call: a Sender exists
    receiverAlive,  \* channel of each try_init call: the Receiver exists
    queue,          \* channel of each try_init call: the items in flight
    consumer,       \* the spawn_blocking task of each try_init call
    cur,            \* the closure that task is running
    recvErrs,       \* recv() calls of that task that returned Err
    ppc,            \* log call of each producer: its position
    pend,           \* log call of each producer: the closure built
    nlog,           \* log calls each producer has made
    nflush,         \* flush calls each producer has made
    sinkCalls,      \* the calls the sinks have received, in order
    early,          \* history: records sent before their consumer was spawned
    initOutcome,    \* how the init call of an installer ended
    enabledRet,     \* the last enabled call on the facade and what it returned
    spc,            \* snapshot of one record: its position
    event,          \* snapshot of one record: the Record given to log
    snapshot,       \* snapshot of one record: what the closure captured
    replayed        \* snapshot of one record: the Record the closure built

snapVars == <<spc, event, snapshot, replayed>>

pipeVars == <<INNER_LOGGER, LOGGER, MAX_LEVEL, ipc, flogger, r, ires, senderAlive,
              receiverAlive, queue, consumer, cur, recvErrs, ppc, pend, nlog,
              nflush, sinkCalls, early, initOutcome>>

vars == <<pipeVars, enabledRet, snapVars>>

installVars == <<ipc, flogger, r, ires>>
chanVars == <<senderAlive, receiverAlive, queue>>
consVars == <<consumer, cur, recvErrs>>
prodVars == <<ppc, pend, nlog, nflush>>

(* ------------------------- the log crate's cell ----------------------- *)

NoLogger == [kind |-> "none", logger |-> None, sender |-> None]
ForeignLogger == [kind |-> "foreign", logger |-> None, sender |-> None]
\* struct ThreadedLogger { logger, sender }
ThreadedLogger(l, s) == [kind |-> "facade", logger |-> l, sender |-> s]

NoClosure == [logger |-> None, by |-> None, n |-> 0, sender |-> None]

(* ------------------------------ OnceCell ------------------------------ *)

\* a set that replaces the value the cell already holds
OnceCellSetOverwrite(cell, v) == [cell |-> v, ok |-> cell = None]

\* OnceCell::set: stores v when the cell is empty, else fails and keeps it
OnceCellSet(cell, v) ==
    IF cell = None THEN [cell |-> v, ok |-> TRUE] ELSE [cell |-> cell, ok |-> FALSE]

(* ------------------------------ channel ------------------------------- *)

\* a send that puts the item at the head of the queue
ChannelSendFront(q, item) == <<item>> \o q

\* Sender::send on the unbounded channel: the item goes to the back
ChannelSend(q, item) == Append(q, item)

\* a recv that takes the newest item
ChannelRecvLast(q) == q[Len(q)]

\* Receiver::recv: the oldest item
ChannelRecv(q) == Head(q)

\* a recv that leaves the item in the queue
ChannelRestPeek(q) == q

\* what recv leaves in the queue
ChannelRest(q) == Tail(q)

(* ------------------------------ counting ----------------------------- *)

RECURSIVE Total(_, _)
\* the sum of f over the set S
Total(f, S) ==
    IF S = {} THEN 0
    ELSE LET x == CHOOSE y \in S : TRUE IN f[x] + Total(f, S \ {x})

(* ------------------------------- sinks -------------------------------- *)

LogCall(c) == [op |-> "log", sink |-> c.logger, by |-> c.by, n |-> c.n]
FlushCall(s, p, n) == [op |-> "flush", sink |-> s, by |-> p, n |-> n]
\* a call of the sink's log that panicked
PanicCall(c) == [op |-> "panic", sink |-> c.logger, by |-> c.by, n |-> c.n]

(* ------------------------------ records ------------------------------- *)

\* texts are sequences of characters
Levels == {"Error", "Warn", "Info", "Debug", "Trace"}
Targets == {<<"t">>, <<>>}
Texts == {<<>>, <<"4", "2">>, <<"{", "}">>}

\* an optional string of a Record: static (MaybeStaticStr::Static) or borrowed
NoStr == [some |-> FALSE, static |-> FALSE, text |-> <<>>]
OptStrs ==
    {NoStr} \cup [some : {TRUE}, static : BOOLEAN, text : {<<"m">>, <<>>}]
NoLine == [some |-> FALSE, n |-> 0]
OptLines == {NoLine, [some |-> TRUE, n |-> 7]}

\* fmt::Arguments: literal pieces with the arguments between them
Arguments ==
    [pieces : {<<t>> : t \in Texts}, args : {<<>>}]
      \cup [pieces : {<<<<"x", "=">>, <<>>>>, <<<<>>, <<"!">>>>},
            args : {<<t>> : t \in {<<"4", "2">>, <<"{", "}">>}}]

RECURSIVE Interleave(_, _)
\* pieces[1] args[1] pieces[2] args[2] ..
Interleave(pieces, args) ==
    IF pieces = <<>> THEN <<>>
    ELSE Head(pieces)
           \o (IF args = <<>> THEN <<>>
               ELSE Head(args) \o Interleave(Tail(pieces), Tail(args)))

\* fmt::format(args), and what Display gives for a Record's args()
Format(a) == Interleave(a.pieces, a.args)

\* Arguments::as_str: Some only for a literal without arguments
AsStr(a) ==
    IF a.args = <<>> /\ Len(a.pieces) = 1
      THEN [some |-> TRUE, text |-> a.pieces[1]]
      ELSE [some |-> FALSE, text |-> <<>>]

\* format_args!("{}", s)
FormatArgsDisplay(s) == [pieces |-> <<<<>>, <<>>>>, args |-> <<s>>]

Records ==
    [level : Levels, target : Targets, args : Arguments,
     module_path : OptStrs, file : OptStrs, line : OptLines]

NoRecord ==
    [level |-> None, target |-> <<>>, args |-> [pieces |-> <<>>, args |-> <<>>],
     module_path |-> NoStr, file |-> NoStr, line |-> NoLine]

NoCow == [some |-> FALSE, borrowed |-> FALSE, text |-> <<>>]

NoSnapshot ==
    [level |-> None, target |-> <<>>, args_str |-> NoCow,
     module_path |-> NoCow, file |-> NoCow, line |-> NoLine]

\* a capture that keeps a path only when it is static
SnapshotPathStaticOnly(o) ==
    IF o.some /\ o.static
      THEN [some |-> TRUE, borrowed |-> TRUE, text |-> o.text]
      ELSE NoCow

\* if let Some(s) = record.module_path_static() { Some(Cow::Borrowed(s)) }
\* else { record.module_path().map(|s| Cow::Owned(s.to_owned())) }
SnapshotPath(o) ==
    IF o.some /\ o.static
      THEN [some |-> TRUE, borrowed |-> TRUE, text |-> o.text]
      ELSE IF o.some
        THEN [some |-> TRUE, borrowed |-> FALSE, text |-> o.text]
        ELSE NoCow

\* if let Some(s) = record.args().as_str() { Cow::Borrowed(s) }
\* else { Cow::Owned(fmt::format(*record.args())) }
SnapshotArgs(a) ==
    IF AsStr(a).some
      THEN [some |-> TRUE, borrowed |-> TRUE, text |-> AsStr(a).text]
      ELSE [some |-> TRUE, borrowed |-> FALSE, text |-> Format(a)]

\* what the closure of ThreadedLogger::log captures of the record
Snapshot(rec) ==
    [level |-> rec.level,
     target |-> rec.target,
     args_str |-> SnapshotArgs(rec.args),
     module_path |-> SnapshotPath(rec.module_path),
     file |-> SnapshotPath(rec.file),
     line |-> rec.line]

\* Option<Cow<str>>::as_deref given to the builder: a borrowed, not static, str
AsDeref(c) == [some |-> c.some, static |-> FALSE, text |-> c.text]

\* the Record the closure builds
Replay(sn) ==
    [level |-> sn.level,
     target |-> sn.target,
     args |-> FormatArgsDisplay(sn.args_str.text),
     module_path |-> AsDeref(sn.module_path),
     file |-> AsDeref(sn.file),
     line |-> sn.line]

\* what a sink reads of a Record: level(), target(), args() displayed,
\* module_path(), file(), line()
SinkView(rec) ==
    [level |-> rec.level,
     target |-> rec.target,
     message |-> Format(rec.args),
     module_path |-> [some |-> rec.module_path.some, text |-> rec.module_path.text],
     file |-> [some |-> rec.file.some, text |-> rec.file.text],
     line |-> rec.line]

\* no enabled call made yet
NoEnabled == [level |-> None, ret |-> FALSE]

(* ------------------------------- Init --------------------------------- *)

InitPipeline ==
    /\ INNER_LOGGER = None
    /\ LOGGER = NoLogger
    /\ MAX_LEVEL = "Off"
    /\ ipc = [i \in Installers |-> "idle"]
    /\ flogger = [i \in Installers |-> None]
    /\ r = [i \in Installers |-> None]
    /\ ires = [i \in Installers |-> None]
    /\ senderAlive = [i \in Installers |-> FALSE]
    /\ receiverAlive = [i \in Installers |-> FALSE]
    /\ queue = [i \in Installers |-> <<>>]
    /\ consumer = [i \in Installers |-> "none"]
    /\ cur = [i \in Installers |-> NoClosure]
    /\ recvErrs = [i \in Installers |-> 0]
    /\ ppc = [p \in Producers |-> "idle"]
    /\ pend = [p \in Producers |-> NoClosure]
    /\ nlog = [p \in Producers |-> 0]
    /\ nflush = [p \in Producers |-> 0]
    /\ sinkCalls = <<>>
    /\ early = {}
    /\ initOutcome = [i \in Installers |-> None]
    /\ enabledRet = NoEnabled

Init ==
    /\ InitPipeline
    /\ spc = "off"
    /\ event = NoRecord
    /\ snapshot = NoSnapshot
    /\ replayed = NoRecord

(* -------------------------------- init -------------------------------- *)

\* the first installer calls init, the second calls try_init itself
ViaInit(i) == i = "i1"

\* a wrapper that drops the error
UnwrapIgnored(res) == "returned"

\* try_init(logger, max_level).unwrap(): Err is a panic of the caller
Unwrap(res) == IF res = "Ok" THEN "returned" ELSE "panicked"

\* init: how the call ends when its try_init returned res
InitOutcome(i, res) == IF ViaInit(i) THEN Unwrap(res) ELSE None

(* ------------------------------ try_init ------------------------------ *)

\* a set whose failure is ignored: the call goes on with the cell's value
TryInitSetNoReturn(i) ==
    /\ ipc[i] = "idle"
    /\ INNER_LOGGER' = OnceCellSet(INNER_LOGGER, SinkOf(i)).cell
    /\ flogger' = [flogger EXCEPT ![i] = INNER_LOGGER']
    /\ senderAlive' = [senderAlive EXCEPT ![i] = TRUE]
    /\ receiverAlive' = [receiverAlive EXCEPT ![i] = TRUE]
    /\ ipc' = [ipc EXCEPT ![i] = "register"]
    /\ UNCHANGED <<LOGGER, MAX_LEVEL, r, ires, queue, consVars, prodVars,
                   sinkCalls, early, enabledRet, initOutcome,
                   snapVars>>

\* let (sender, receiver) = unbounded();
\* INNER_LOGGER.set(Box::new(logger)).map_err(|_| ThreadedLoggerError(()))?;
\* let threaded_logger = ThreadedLogger {
\*     logger: unsafe { INNER_LOGGER.get_unchecked() }, sender };
\* The set is the one access to shared state; its early return drops the
\* sender and the receiver just made.
TryInitSet(i) ==
    /\ ipc[i] = "idle"
    /\ INNER_LOGGER' = OnceCellSet(INNER_LOGGER, SinkOf(i)).cell
    /\ IF OnceCellSet(INNER_LOGGER, SinkOf(i)).ok
         THEN /\ flogger' = [flogger EXCEPT ![i] = INNER_LOGGER']
              /\ senderAlive' = [senderAlive EXCEPT ![i] = TRUE]
              /\ receiverAlive' = [receiverAlive EXCEPT ![i] = TRUE]
              /\ ipc' = [ipc EXCEPT ![i] = "register"]
              /\ UNCHANGED <<ires, initOutcome>>
         ELSE /\ ipc' = [ipc EXCEPT ![i] = "done"]
              /\ ires' = [ires EXCEPT ![i] = "Err"]
              /\ initOutcome' = [initOutcome EXCEPT ![i] = InitOutcome(i, "Err")]
              /\ UNCHANGED <<flogger, senderAlive, receiverAlive>>
    /\ UNCHANGED <<LOGGER, MAX_LEVEL, r, queue, consVars, prodVars, sinkCalls,
                   early, enabledRet, snapVars>>

\* let r = log::set_boxed_logger(Box::new(threaded_logger)).map_err(..);
\* on failure the boxed facade, and the sender in it, is dropped
TryInitRegister(i) ==
    /\ ipc[i] = "register"
    /\ IF LOGGER = NoLogger
         THEN /\ LOGGER' = ThreadedLogger(flogger[i], i)
              /\ r' = [r EXCEPT ![i] = "Ok"]
              /\ UNCHANGED senderAlive
         ELSE /\ r' = [r EXCEPT ![i] = "Err"]
              /\ senderAlive' = [senderAlive EXCEPT ![i] = FALSE]
              /\ UNCHANGED LOGGER
    /\ ipc' = [ipc EXCEPT ![i] = "setmax"]
    /\ UNCHANGED <<INNER_LOGGER, MAX_LEVEL, flogger, ires, receiverAlive, queue,
                   consVars, prodVars, sinkCalls, early, enabledRet, initOutcome,
                   snapVars>>

\* a call that leaves the filter as it is
TryInitSetMaxSkip(i) ==
    /\ ipc[i] = "setmax"
    /\ ipc' = [ipc EXCEPT ![i] = "spawn"]
    /\ UNCHANGED <<INNER_LOGGER, LOGGER, MAX_LEVEL, flogger, r, ires, chanVars,
                   consVars, prodVars, sinkCalls, early, enabledRet, initOutcome,
                   snapVars>>

\* if r.is_ok() { log::set_max_level(max_level); }
TryInitSetMax(i) ==
    /\ ipc[i] = "setmax"
    /\ MAX_LEVEL' = IF r[i] = "Ok" THEN LevelOf(i) ELSE MAX_LEVEL
    /\ ipc' = [ipc EXCEPT ![i] = "spawn"]
    /\ UNCHANGED <<INNER_LOGGER, LOGGER, flogger, r, ires, chanVars, consVars,
                   prodVars, sinkCalls, early, enabledRet, initOutcome,
                   snapVars>>

\* tokio::task::spawn_blocking(move || loop { .. });
TryInitSpawn(i) ==
    /\ ipc[i] = "spawn"
    /\ consumer' = [consumer EXCEPT ![i] = "recv"]
    /\ ipc' = [ipc EXCEPT ![i] = "ret"]
    /\ UNCHANGED <<INNER_LOGGER, LOGGER, MAX_LEVEL, flogger, r, ires, chanVars,
                   cur, recvErrs, prodVars, sinkCalls, early, enabledRet, initOutcome,
                   snapVars>>

\* a return of Ok(()) whatever r holds
TryInitReturnOk(i) ==
    /\ ipc[i] = "ret"
    /\ ires' = [ires EXCEPT ![i] = "Ok"]
    /\ initOutcome' = [initOutcome EXCEPT ![i] = InitOutcome(i, "Ok")]
    /\ ipc' = [ipc EXCEPT ![i] = "done"]
    /\ UNCHANGED <<INNER_LOGGER, LOGGER, MAX_LEVEL, flogger, r, chanVars,
                   consVars, prodVars, sinkCalls, early, enabledRet, snapVars>>

\* r
TryInitReturn(i) ==
    /\ ipc[i] = "ret"
    /\ ires' = [ires EXCEPT ![i] = r[i]]
    /\ initOutcome' = [initOutcome EXCEPT ![i] = InitOutcome(i, r[i])]
    /\ ipc' = [ipc EXCEPT ![i] = "done"]
    /\ UNCHANGED <<INNER_LOGGER, LOGGER, MAX_LEVEL, flogger, r, chanVars,
                   consVars, prodVars, sinkCalls, early, enabledRet, snapVars>>

\* some other code of the process registers its logger first, which is
\* the case set_boxed_logger's Err answers
ForeignSetLogger ==
    /\ LOGGER = NoLogger
    /\ LOGGER' = ForeignLogger
    /\ UNCHANGED <<INNER_LOGGER, MAX_LEVEL, installVars, chanVars, consVars,
                   prodVars, sinkCalls, early, enabledRet, initOutcome,
                   snapVars>>

(* --------------------------- ThreadedLogger --------------------------- *)

\* ThreadedLogger::log up to the closure: the snapshot, logger_ and the
\* facade's sender
LogBegin(p) ==
    /\ ppc[p] = "idle"
    /\ Total(nlog, Producers) < MaxLogs
    /\ LOGGER.kind = "facade"
    /\ nlog' = [nlog EXCEPT ![p] = @ + 1]
    /\ pend' = [pend EXCEPT ![p] = [logger |-> LOGGER.logger, by |-> p,
                                    n |-> nlog[p] + 1, sender |-> LOGGER.sender]]
    /\ ppc' = [ppc EXCEPT ![p] = "send"]
    /\ UNCHANGED <<INNER_LOGGER, LOGGER, MAX_LEVEL, installVars, chanVars,
                   consVars, nflush, sinkCalls, early, enabledRet, initOutcome,
                   snapVars>>

\* a send on a channel of capacity 1, which waits while the channel is full
LogSendBounded(p) ==
    /\ ppc[p] = "send"
    /\ Len(queue[pend[p].sender]) < 1
    /\ queue' = [queue EXCEPT ![pend[p].sender] = ChannelSend(@, pend[p])]
    /\ pend' = [pend EXCEPT ![p] = NoClosure]
    /\ ppc' = [ppc EXCEPT ![p] = "idle"]
    /\ UNCHANGED <<INNER_LOGGER, LOGGER, MAX_LEVEL, installVars, senderAlive,
                   receiverAlive, consVars, nlog, nflush, sinkCalls, enabledRet,
                   initOutcome, snapVars>>
    /\ early' = IF consumer[pend[p].sender] = "none"
                  THEN early \cup {<<p, pend[p].n>>} ELSE early

\* self.sender.send(Box::new(log)).ok();  an Err (no receiver) is discarded
LogSend(p) ==
    /\ ppc[p] = "send"
    /\ queue' = IF receiverAlive[pend[p].sender]
                  THEN [queue EXCEPT ![pend[p].sender] = ChannelSend(@, pend[p])]
                  ELSE queue
    /\ pend' = [pend EXCEPT ![p] = NoClosure]
    /\ ppc' = [ppc EXCEPT ![p] = "idle"]
    /\ UNCHANGED <<INNER_LOGGER, LOGGER, MAX_LEVEL, installVars, senderAlive,
                   receiverAlive, consVars, nlog, nflush, sinkCalls, enabledRet,
                   initOutcome, snapVars>>
    /\ early' = IF consumer[pend[p].sender] = "none"
                  THEN early \cup {<<p, pend[p].n>>} ELSE early

RECURSIVE Replays(_)
Replays(q) == IF q = <<>> THEN <<>> ELSE <<LogCall(Head(q))>> \o Replays(Tail(q))

\* a flush that first replays everything queued on the facade's channel
FlushDrainFirst(p) ==
    /\ ppc[p] = "idle"
    /\ Total(nflush, Producers) < MaxFlush
    /\ LOGGER.kind = "facade"
    /\ nflush' = [nflush EXCEPT ![p] = @ + 1]
    /\ sinkCalls' = Append(sinkCalls \o Replays(queue[LOGGER.sender]),
                           FlushCall(LOGGER.logger, p, nlog[p]))
    /\ queue' = [queue EXCEPT ![LOGGER.sender] = <<>>]
    /\ UNCHANGED <<INNER_LOGGER, LOGGER, MAX_LEVEL, installVars, senderAlive,
                   receiverAlive, consVars, ppc, pend, nlog, early, enabledRet, initOutcome,
                   snapVars>>

\* ThreadedLogger::flush: self.logger.flush()
Flush(p) ==
    /\ ppc[p] = "idle"
    /\ Total(nflush, Producers) < MaxFlush
    /\ LOGGER.kind = "facade"
    /\ nflush' = [nflush EXCEPT ![p] = @ + 1]
    /\ sinkCalls' = Append(sinkCalls, FlushCall(LOGGER.logger, p, nlog[p]))
    /\ UNCHANGED <<INNER_LOGGER, LOGGER, MAX_LEVEL, installVars, chanVars,
                   consVars, ppc, pend, nlog, early, enabledRet, initOutcome,
                   snapVars>>

\* what the sink's own enabled answers for a metadata of the given level:
\* S1 takes Error and Warn, S2 everything but Trace
SinkEnabled(sink, level) ==
    IF sink = "S1" THEN level \in {"Error", "Warn"}
    ELSE IF sink = "S2" THEN level # "Trace"
    ELSE FALSE

\* the levels of the metadata the producers ask about
MetaLevels == {"Warn", "Debug", "Trace"}

\* a facade that answers by itself
EnabledAlways(p) ==
    /\ ppc[p] = "idle"
    /\ LOGGER.kind = "facade"
    /\ \E level \in MetaLevels :
         enabledRet' = [level |-> level, ret |-> TRUE]
    /\ UNCHANGED <<pipeVars, snapVars>>

\* ThreadedLogger::enabled: self.logger.enabled(metadata)
Enabled(p) ==
    /\ ppc[p] = "idle"
    /\ LOGGER.kind = "facade"
    /\ \E level \in MetaLevels :
         enabledRet' = [level |-> level, ret |-> SinkEnabled(LOGGER.logger, level)]
    /\ UNCHANGED <<pipeVars, snapVars>>

(* ------------------------------ consumer ------------------------------ *)

\* a loop that takes the next item while the last closure is still running
ConsumerRecvEager(i) ==
    /\ consumer[i] \in {"recv", "run"}
    /\ queue[i] # <<>>
    /\ cur' = [cur EXCEPT ![i] = ChannelRecv(queue[i])]
    /\ queue' = [queue EXCEPT ![i] = ChannelRest(@)]
    /\ consumer' = [consumer EXCEPT ![i] = "run"]
    /\ UNCHANGED <<INNER_LOGGER, LOGGER, MAX_LEVEL, installVars, senderAlive,
                   receiverAlive, recvErrs, prodVars, sinkCalls, early,
                   enabledRet, initOutcome, snapVars>>

\* if let Ok(log) = receiver.recv(): an item is there
ConsumerRecv(i) ==
    /\ consumer[i] = "recv"
    /\ queue[i] # <<>>
    /\ cur' = [cur EXCEPT ![i] = ChannelRecv(queue[i])]
    /\ queue' = [queue EXCEPT ![i] = ChannelRest(@)]
    /\ consumer' = [consumer EXCEPT ![i] = "run"]
    /\ UNCHANGED <<INNER_LOGGER, LOGGER, MAX_LEVEL, installVars, senderAlive,
                   receiverAlive, recvErrs, prodVars, sinkCalls, early, enabledRet, initOutcome,
                   snapVars>>

\* receiver.recv() is Err: the channel is empty and every sender is gone;
\* the loop goes round
ConsumerRecvErr(i) ==
    /\ consumer[i] = "recv"
    /\ queue[i] = <<>>
    /\ ~senderAlive[i]
    /\ recvErrs[i] < MaxRecvErrs
    /\ recvErrs' = [recvErrs EXCEPT ![i] = @ + 1]
    /\ UNCHANGED <<INNER_LOGGER, LOGGER, MAX_LEVEL, installVars, chanVars,
                   consumer, cur, prodVars, sinkCalls, early, enabledRet, initOutcome,
                   snapVars>>

\* a loop body that drops the closure without calling it
ConsumerRunSkip(i) ==
    /\ consumer[i] = "run"
    /\ cur' = [cur EXCEPT ![i] = NoClosure]
    /\ consumer' = [consumer EXCEPT ![i] = "recv"]
    /\ UNCHANGED <<INNER_LOGGER, LOGGER, MAX_LEVEL, installVars, chanVars,
                   recvErrs, prodVars, sinkCalls, early, enabledRet, initOutcome,
                   snapVars>>

\* log(): the closure calls logger_.log(&record)
ConsumerRun(i) ==
    /\ consumer[i] = "run"
    /\ sinkCalls' = Append(sinkCalls, LogCall(cur[i]))
    /\ cur' = [cur EXCEPT ![i] = NoClosure]
    /\ consumer' = [consumer EXCEPT ![i] = "recv"]
    /\ UNCHANGED <<INNER_LOGGER, LOGGER, MAX_LEVEL, installVars, chanVars,
                   recvErrs, prodVars, early, enabledRet, initOutcome,
                   snapVars>>

\* a task that catches the panic and goes on with its loop
ConsumerRunPanicCaught(i) ==
    /\ consumer[i] = "run"
    /\ sinkCalls' = Append(sinkCalls, PanicCall(cur[i]))
    /\ cur' = [cur EXCEPT ![i] = NoClosure]
    /\ consumer' = [consumer EXCEPT ![i] = "recv"]
    /\ UNCHANGED <<INNER_LOGGER, LOGGER, MAX_LEVEL, installVars, chanVars,
                   recvErrs, prodVars, early, enabledRet, initOutcome,
                   snapVars>>

\* log() panics inside the sink: the closure of the task unwinds, which
\* drops the receiver it owns, and the loop is over
ConsumerRunPanic(i) ==
    /\ consumer[i] = "run"
    /\ sinkCalls' = Append(sinkCalls, PanicCall(cur[i]))
    /\ cur' = [cur EXCEPT ![i] = NoClosure]
    /\ consumer' = [consumer EXCEPT ![i] = "dead"]
    /\ receiverAlive' = [receiverAlive EXCEPT ![i] = FALSE]
    /\ UNCHANGED <<INNER_LOGGER, LOGGER, MAX_LEVEL, installVars, senderAlive,
                   queue, recvErrs, prodVars, early, enabledRet, initOutcome,
                   snapVars>>

(* ---------------------------- specification --------------------------- *)

\* try_init, log and the consumer: everything but flush
Logging ==
    \/ \E i \in Installers : TryInitSet(i)
    \/ \E i \in Installers : TryInitRegister(i)
    \/ \E i \in Installers : TryInitSetMax(i)
    \/ \E i \in Installers : TryInitSpawn(i)
    \/ \E i \in Installers : TryInitReturn(i)
    \/ ForeignSetLogger
    \/ \E p \in Producers : LogBegin(p)
    \/ \E p \in Producers : LogSend(p)
    \/ \E i \in Installers : ConsumerRecv(i)
    \/ \E i \in Installers : ConsumerRecvErr(i)
    \/ \E i \in Installers : ConsumerRun(i)

Next ==
    \/ Logging
    \/ \E p \in Producers : Flush(p)

Spec == Init /\ [][Next]_vars

\* The liveness specifications leave flush out: it reads LOGGER and appends
\* to sinkCalls, and touches neither the channel nor the consumer.

\* the threads calling try_init keep running, tokio runs the spawned task, and
\* the task's loop keeps taking steps
FairSpec ==
    /\ Init /\ [][Logging]_vars
    /\ \A i \in Installers :
         /\ WF_vars(TryInitSetMax(i))
         /\ WF_vars(TryInitSpawn(i))
         /\ WF_vars(ConsumerRecv(i))
         /\ WF_vars(ConsumerRun(i))

\* only the producers are scheduled: the consumer may never take a step
ProducerFairSpec ==
    /\ Init /\ [][Logging]_vars
    /\ \A p \in Producers : WF_vars(LogSend(p))

\* the producers also ask the facade whether a metadata is enabled
PassThroughNext ==
    \/ Next
    \/ \E p \in Producers : Enabled(p)

PassThroughSpec == Init /\ [][PassThroughNext]_vars

\* a sink whose log may panic; the producers are scheduled
PanicNext ==
    \/ Logging
    \/ \E i \in Installers : ConsumerRunPanic(i)

PanicSpec ==
    /\ Init /\ [][PanicNext]_vars
    /\ \A p \in Producers : WF_vars(LogSend(p))

(* ------------------------- one record's snapshot ---------------------- *)

\* any Record may be given to log
SnapshotInit ==
    /\ InitPipeline
    /\ spc = "logged"
    /\ event \in Records
    /\ snapshot = NoSnapshot
    /\ replayed = NoRecord

\* ThreadedLogger::log builds the closure
SnapshotCapture ==
    /\ spc = "logged"
    /\ snapshot' = Snapshot(event)
    /\ spc' = "captured"
    /\ UNCHANGED <<pipeVars, enabledRet, event, replayed>>

\* the consumer runs the closure
SnapshotReplay ==
    /\ spc = "captured"
    /\ replayed' = Replay(snapshot)
    /\ spc' = "replayed"
    /\ UNCHANGED <<pipeVars, enabledRet, event, snapshot>>

SnapshotNext ==
    \/ SnapshotCapture
    \/ SnapshotReplay

SnapshotSpec == SnapshotInit /\ [][SnapshotNext]_vars

(* ------------------------------ properties ---------------------------- *)

IsLog(e) == e.op = "log"
IsFlush(e) == e.op = "flush"

\* the sink has received the replay of log call n of producer p
Delivered(p, n) ==
    \E k \in DOMAIN sinkCalls :
        IsLog(sinkCalls[k]) /\ sinkCalls[k].by = p /\ sinkCalls[k].n = n

\* the closure of log call n of producer p is on a channel
InChannel(p, n) ==
    \E i \in Installers : \E k \in DOMAIN queue[i] :
        queue[i][k].by = p /\ queue[i][k].n = n

\* the log calls the sinks received from producer p, in order
SinkLogsOf(p) == SelectSeq(sinkCalls, LAMBDA e : IsLog(e) /\ e.by = p)

AllDone == \A i \in Installers : ipc[i] = "done"
OkCalls == {i \in Installers : ires[i] = "Ok"}

\* C1: two records of one producer are never replayed in swapped order: of
\* any two log calls the sink received from the same producer, the earlier
\* received one is the earlier logged one.
SingleProducerOrder ==
    \A a, b \in DOMAIN sinkCalls :
        (a < b /\ IsLog(sinkCalls[a]) /\ IsLog(sinkCalls[b])
           /\ sinkCalls[a].by = sinkCalls[b].by)
        => sinkCalls[a].n < sinkCalls[b].n

\* one producer alone made three log calls and the sink has received all three
SingleProducerOrderWitness ==
    \E p \in Producers :
        /\ \A q \in Producers \ {p} : nlog[q] = 0
        /\ Delivered(p, 1) /\ Delivered(p, 2) /\ Delivered(p, 3)

\* C2: with several producers the sink's log calls are one sequence whose
\* restriction to any producer is that producer's own call sequence: its
\* k-th record from producer p is p's k-th log call.
MultiProducerInterleaving ==
    \A p \in Producers :
        \A k \in DOMAIN SinkLogsOf(p) : SinkLogsOf(p)[k].n = k

\* the sink received a record of one producer between two of another
MultiProducerInterleavingWitness ==
    \E a, b, c \in DOMAIN sinkCalls :
        /\ a < b /\ b < c
        /\ IsLog(sinkCalls[a]) /\ IsLog(sinkCalls[b]) /\ IsLog(sinkCalls[c])
        /\ sinkCalls[a].by = sinkCalls[c].by
        /\ sinkCalls[a].by # sinkCalls[b].by

\* C3: with the installers and the consumer kept running, every closure a
\* log call put on the channel is eventually run against the sink, also
\* one enqueued before the consumer was spawned.
EnqueuedEventuallyReplayed ==
    \A p \in Producers : \A n \in 1..MaxLogs :
        InChannel(p, n) ~> Delivered(p, n)

\* a record sent before the consumer was spawned has reached the sink
EnqueuedEventuallyReplayedWitness ==
    \E e \in early : Delivered(e[1], e[2])

\* C4: the sink receives the record of a log call at most once, and only
\* records of log calls that were made.
NoDupNoInvention ==
    \A a \in DOMAIN sinkCalls :
        IsLog(sinkCalls[a]) =>
            /\ sinkCalls[a].by \in Producers
            /\ sinkCalls[a].n \in 1..nlog[sinkCalls[a].by]
            /\ \A b \in DOMAIN sinkCalls :
                 (IsLog(sinkCalls[b]) /\ sinkCalls[b].by = sinkCalls[a].by
                    /\ sinkCalls[b].n = sinkCalls[a].n) => a = b

\* both producers logged and every record logged has been received once
NoDupNoInventionWitness ==
    /\ \A p \in Producers : nlog[p] >= 1
    /\ \A p \in Producers : \A n \in 1..nlog[p] : Delivered(p, n)
    /\ Len(SelectSeq(sinkCalls, IsLog)) = Total(nlog, Producers)

\* C5 as stated: after two try_init calls exactly one has returned Ok.
InstallExactlyOnce ==
    AllDone => Cardinality(OkCalls) = 1

\* C5: at most one try_init call returns Ok; after all calls exactly one has
\* returned Ok when no other logger was registered with the log crate, and
\* none when one was.
InstallAtMostOnce ==
    /\ Cardinality(OkCalls) <= 1
    /\ AllDone =>
         Cardinality(OkCalls) = (IF LOGGER.kind = "foreign" THEN 0 ELSE 1)

\* both calls returned, one Ok and the other Err
InstallAtMostOnceWitness ==
    /\ AllDone
    /\ \E i, j \in Installers : ires[i] = "Ok" /\ ires[j] = "Err"

\* C6: once INNER_LOGGER holds a sink it keeps that sink, and a try_init
\* call that reaches its set after that fails.
SinkSlotSetOnce ==
    [][/\ INNER_LOGGER # None => INNER_LOGGER' = INNER_LOGGER
       /\ \A i \in Installers :
            (INNER_LOGGER # None /\ ipc[i] = "idle" /\ ipc'[i] # "idle")
            => ires'[i] = "Err"]_vars

\* a second call has failed and the slot holds the first call's sink
SinkSlotSetOnceWitness ==
    /\ INNER_LOGGER = "S1"
    /\ ipc["i2"] = "done" /\ ires["i2"] = "Err"
    /\ ipc["i1"] = "done"

\* C7: a try_init call that finds the slot occupied returns Err at once;
\* that step starts no consumer and changes neither the filter, the
\* registered logger nor the slot, and the call never has a consumer.
NoEffectsWhenOccupied ==
    /\ [](\A i \in Installers :
            (ipc[i] = "done" /\ r[i] = None)
            => (ires[i] = "Err" /\ consumer[i] = "none"))
    /\ [][\A i \in Installers :
            (INNER_LOGGER # None /\ ipc[i] = "idle" /\ ipc'[i] # "idle")
            => /\ ipc'[i] = "done"
               /\ ires'[i] = "Err"
               /\ consumer' = consumer
               /\ MAX_LEVEL' = MAX_LEVEL
               /\ LOGGER' = LOGGER
               /\ INNER_LOGGER' = INNER_LOGGER]_vars

\* a call failed on the occupied slot after the first call had registered
\* the facade, set the filter and spawned its consumer
NoEffectsWhenOccupiedWitness ==
    /\ ipc["i2"] = "done" /\ r["i2"] = None /\ ires["i2"] = "Err"
    /\ consumer["i1"] # "none"
    /\ MAX_LEVEL = "Info"
    /\ LOGGER = ThreadedLogger("S1", "i1")

\* C8: every replay is served by the sink INNER_LOGGER holds, whichever
\* call won, and a call whose sink is not the one stored returns Err.
OneSinkServesAll ==
    /\ \A k \in DOMAIN sinkCalls :
         IsLog(sinkCalls[k]) => sinkCalls[k].sink = INNER_LOGGER
    /\ \A i \in Installers :
         (ipc[i] = "done" /\ INNER_LOGGER # SinkOf(i)) => ires[i] = "Err"

\* both calls raced, the second one's sink won and has served a replay
OneSinkServesAllWitness ==
    /\ AllDone
    /\ INNER_LOGGER = "S2"
    /\ ires["i1"] = "Err"
    /\ \E k \in DOMAIN sinkCalls :
         IsLog(sinkCalls[k]) /\ sinkCalls[k].sink = "S2"

\* C9: a log call that has built its closure returns without any step of
\* the consumer: scheduling the producers alone completes it, whatever the
\* queue holds.
LogNeverBlocks ==
    \A p \in Producers : (ppc[p] = "send") ~> (ppc[p] = "idle")

\* every log call has returned and all their closures sit on the channel
\* of a consumer that has not been spawned yet
LogNeverBlocksWitness ==
    \E i \in Installers :
        /\ consumer[i] = "none"
        /\ Len(queue[i]) = MaxLogs
        /\ \A p \in Producers : ppc[p] = "idle"

\* C10: a flush call reaches the sink's flush in the same step and leaves
\* the channel as it is, whatever is queued.
FlushIsNoBarrier ==
    [][\A p \in Producers :
         nflush'[p] # nflush[p]
         => /\ sinkCalls' = Append(sinkCalls, FlushCall(LOGGER.logger, p, nlog[p]))
            /\ queue' = queue
            /\ cur' = cur]_vars

\* the sink has received the flush of a producer while a record that
\* producer logged before the flush is still on the channel
FlushIsNoBarrierWitness ==
    \E k \in DOMAIN sinkCalls : \E i \in Installers : \E j \in DOMAIN queue[i] :
        /\ IsFlush(sinkCalls[k])
        /\ queue[i][j].by = sinkCalls[k].by
        /\ queue[i][j].n <= sinkCalls[k].n
        /\ sinkCalls[k].sink = queue[i][j].logger

\* C11: once recv() has failed because every sender is gone, the consumer
\* loop has exited: it makes no further receive attempt.
ConsumerExitsWhenDisconnected ==
    [][\A i \in Installers :
         recvErrs[i] >= 1 => recvErrs'[i] = recvErrs[i]]_vars

\* C12: when try_init has returned Ok the slot holds its sink, its facade is
\* the registered logger, the filter is its max_level and its consumer is
\* started; and a consumer of a call whose registration succeeded is never
\* started before the registration and the filter update.
InstallEffectsInOrder ==
    \A i \in Installers :
        /\ ires[i] = "Ok" =>
             /\ INNER_LOGGER = SinkOf(i)
             /\ LOGGER = ThreadedLogger(SinkOf(i), i)
             /\ MAX_LEVEL = LevelOf(i)
             /\ consumer[i] # "none"
        /\ (consumer[i] # "none" /\ r[i] = "Ok") =>
             /\ LOGGER = ThreadedLogger(SinkOf(i), i)
             /\ MAX_LEVEL = LevelOf(i)

\* the second installer's call has returned Ok
InstallEffectsInOrderWitness ==
    /\ ires["i2"] = "Ok"
    /\ ipc["i2"] = "done"
    /\ consumer["i2"] # "none"

\* C13: the Record the replay hands to the sink reads, field for field
\* (level, target, rendered message, module path, file, line), as the Record
\* given to log, and an absent optional field stays absent.
SnapshotFidelity ==
    spc = "replayed" => SinkView(replayed) = SinkView(event)

\* replayed: a record with a formatted message holding braces, a borrowed
\* module path, a static file and no line
SnapshotFidelityWitness ==
    /\ spc = "replayed"
    /\ event.args.args = <<<<"{", "}">>>>
    /\ event.module_path.some /\ ~event.module_path.static
    /\ event.file.some /\ event.file.static
    /\ ~event.line.some
    /\ SinkView(replayed).message = <<"x", "=", "{", "}">>

\* C14: init panics exactly when its try_init returned Err and returns
\* exactly when it returned Ok.
InitPanicsIffErr ==
    \A i \in Installers :
        (ViaInit(i) /\ ipc[i] = "done") =>
            /\ initOutcome[i] = "panicked" <=> ires[i] = "Err"
            /\ initOutcome[i] = "returned" <=> ires[i] = "Ok"
            /\ initOutcome[i] \in {"panicked", "returned"}

\* an init call has panicked
InitPanicsIffErrWitness ==
    \E i \in Installers :
        ViaInit(i) /\ ipc[i] = "done" /\ initOutcome[i] = "panicked"

\* the consumers inside a closure, that is inside the sink's log
Running == {i \in Installers : consumer[i] = "run"}

\* C15: at most one replay is inside the sink's log at any time, a consumer
\* is inside a closure exactly while it holds one, and it takes nothing from
\* its channel until that closure has returned.
SequentialReplay ==
    /\ [](Cardinality(Running) <= 1)
    /\ [](\A i \in Installers : consumer[i] = "run" <=> cur[i] # NoClosure)
    /\ [][\A i \in Installers :
            consumer[i] = "run" => Len(queue'[i]) >= Len(queue[i])]_vars

\* a consumer is inside a closure while two more wait on its channel
SequentialReplayWitness ==
    \E i \in Installers : consumer[i] = "run" /\ Len(queue[i]) >= 2

\* C16: a try_init call that returned Err has had no side effects, whatever
\* made it fail: it started no consumer, and the slot does not hold the sink
\* it was given.
ErrHasNoEffects ==
    \A i \in Installers :
        ires[i] = "Err" => (consumer[i] = "none" /\ INNER_LOGGER # SinkOf(i))

\* the consumers started so far
Started == {i \in Installers : consumer[i] # "none"}

\* C17: at most one consumer is ever started, and only by the call that set
\* the slot.
OneConsumer ==
    /\ Cardinality(Started) <= 1
    /\ \A i \in Started : INNER_LOGGER = SinkOf(i)

\* every call has returned and exactly one started a consumer
OneConsumerWitness ==
    /\ AllDone
    /\ Cardinality(Started) = 1
    /\ \E i \in Installers : ires[i] = "Err" /\ consumer[i] = "none"

IsPanic(e) == e.op = "panic"
SinkPanicked == \E k \in DOMAIN sinkCalls : IsPanic(sinkCalls[k])

\* the record of log call n of producer p is nowhere: not on a channel, not
\* in a closure being built or run, not handed to a sink
Lost(p, n) ==
    /\ ~InChannel(p, n)
    /\ \A i \in Installers : ~(cur[i].by = p /\ cur[i].n = n)
    /\ ~(pend[p].by = p /\ pend[p].n = n)
    /\ \A k \in DOMAIN sinkCalls : ~(sinkCalls[k].by = p /\ sinkCalls[k].n = n)

\* C18: after the sink's log has panicked in a replay the consumer is gone
\* and its receiver dropped, no record reaches the sink any more, what is
\* queued stays queued, and every log call still returns.
SinkPanicNotCaught ==
    /\ [](SinkPanicked =>
            /\ consumer[LOGGER.sender] = "dead"
            /\ ~receiverAlive[LOGGER.sender])
    /\ [](\A a, b \in DOMAIN sinkCalls :
            (a < b /\ IsPanic(sinkCalls[a])) => ~IsLog(sinkCalls[b]))
    /\ [][SinkPanicked => queue' = queue]_vars
    /\ \A p \in Producers : (ppc[p] = "send") ~> (ppc[p] = "idle")

\* the sink panicked with a record still queued, and a log call made after
\* that has returned with its record lost
SinkPanicNotCaughtWitness ==
    /\ SinkPanicked
    /\ \E i \in Installers : consumer[i] = "dead" /\ queue[i] # <<>>
    /\ \E p \in Producers :
         nlog[p] >= 1 /\ ppc[p] = "idle" /\ Lost(p, nlog[p])

\* C19: enabled returns what the installed sink's enabled returns for the
\* same metadata, and a step of enabled or of flush leaves the channels, the
\* consumers and the slot as they were.
PassThrough ==
    /\ [](enabledRet # NoEnabled
            => enabledRet.ret = SinkEnabled(INNER_LOGGER, enabledRet.level))
    /\ [][(enabledRet' # enabledRet \/ nflush' # nflush)
            => /\ queue' = queue
               /\ senderAlive' = senderAlive
               /\ receiverAlive' = receiverAlive
               /\ consumer' = consumer
               /\ cur' = cur
               /\ INNER_LOGGER' = INNER_LOGGER]_vars

\* the sink has been flushed and has refused a metadata, both through the
\* facade, while a record is still on the facade's channel
PassThroughWitness ==
    /\ LOGGER.kind = "facade"
    /\ enabledRet # NoEnabled
    /\ ~enabledRet.ret
    /\ \E k \in DOMAIN sinkCalls : IsFlush(sinkCalls[k])
    /\ queue[LOGGER.sender] # <<>>

====
